---- MODULE Spec2Model ----
(***************************************************************************)
(* FileDiff (src/filediff.py): the line/character diff engine              *)
(* (perform_diff, buildInlineDiff over difflib.SequenceMatcher) and the    *)
(* window's worker-thread protocol (compare_files, WorkerThread.run,       *)
(* on_compare_done, on_worker_error, the hex-dump workers).                *)
(*                                                                         *)
(* A string is a sequence of one-character strings; a text is a string     *)
(* that may hold the newline character NL.  Python indices are 0-based     *)
(* and ranges half-open; At and Slice translate them.                      *)
(***************************************************************************)
EXTENDS Integers, Sequences, FiniteSets, TLC

\* ---------------------------------------------------------------- bounds
\* lines per side of a diffed text, characters per inline-diffed string,
\* WorkerThread objects created in one run of the window
MaxLines == 3

MaxChars == 3

MaxThreads == 3

\* WorkerThread objects in a run that only opens files and compares
DeepThreads == 5

VARIABLES
    editor_left, editor_right,          \* CodeEditor: document blocks, lineStatus
    path_input_left, path_input_right,  \* QLineEdit texts
    binary_view_checked,                \* binary_view_action.isChecked()
    diff_worker, binary_worker_left, binary_worker_right,
    threads,                            \* every WorkerThread created so far
    dialogs,                            \* the QProgressDialogs workers report to
    last_msg,                           \* title of the message box the last handler showed
    crashed,                            \* the process was aborted
    arg_left, arg_right, ret            \* a direct call of a diff function

vars == <<editor_left, editor_right, path_input_left, path_input_right,
          binary_view_checked, diff_worker, binary_worker_left,
          binary_worker_right, threads, dialogs, last_msg, crashed,
          arg_left, arg_right, ret>>

\* ------------------------------------------------------- Python helpers
NL == "\n"

At(s, i) == s[i + 1]

Slice(s, lo, hi) == SubSeq(s, lo + 1, hi)

Max(x, y) == IF x >= y THEN x ELSE y

Min(x, y) == IF x <= y THEN x ELSE y

\* "".join(ss) and sum(ns), halving the list so that long lists stay shallow
RECURSIVE Concat(_)
Concat(ss) ==
    IF ss = <<>> THEN <<>>
    ELSE IF Len(ss) = 1 THEN ss[1]
    ELSE Concat(SubSeq(ss, 1, Len(ss) \div 2))
         \o Concat(SubSeq(ss, Len(ss) \div 2 + 1, Len(ss)))

RECURSIVE SumSeq(_)
SumSeq(ns) ==
    IF ns = <<>> THEN 0
    ELSE IF Len(ns) = 1 THEN ns[1]
    ELSE SumSeq(SubSeq(ns, 1, Len(ns) \div 2))
         + SumSeq(SubSeq(ns, Len(ns) \div 2 + 1, Len(ns)))

\* "\n".join(lines)
RECURSIVE Join(_)
Join(lines) ==
    IF lines = <<>> THEN <<>>
    ELSE IF Len(lines) = 1 THEN lines[1]
    ELSE lines[1] \o <<NL>> \o Join(Tail(lines))

\* The pieces of text between its NL characters (text.split("\n")): the
\* pieces of the two halves, the last piece of the first half continued by
\* the first piece of the second.
RECURSIVE SplitNL(_)
SplitNL(text) ==
    IF text = <<>> THEN << <<>> >>
    ELSE IF Len(text) = 1 THEN (IF text[1] = NL THEN << <<>>, <<>> >> ELSE <<text>>)
    ELSE LET h == SplitNL(SubSeq(text, 1, Len(text) \div 2))
             t == SplitNL(SubSeq(text, Len(text) \div 2 + 1, Len(text)))
         IN  SubSeq(h, 1, Len(h) - 1) \o <<h[Len(h)] \o t[1]>> \o Tail(t)

\* str.splitlines(): a line ends at each NL; the remainder after the last NL
\* is a line only when it is not empty.
splitlines(text) ==
    LET pieces == SplitNL(text)
    IN  IF pieces[Len(pieces)] = <<>> THEN SubSeq(pieces, 1, Len(pieces) - 1)
        ELSE pieces

\* html.escape(s), quote=True
EscapeChar(c) ==
    CASE c = "&" -> <<"&", "a", "m", "p", ";">>
      [] c = "<" -> <<"&", "l", "t", ";">>
      [] c = ">" -> <<"&", "g", "t", ";">>
      [] c = "\"" -> <<"&", "q", "u", "o", "t", ";">>
      [] c = "'" -> <<"&", "#", "x", "2", "7", ";">>
      [] OTHER -> <<c>>

html_escape(s) == Concat([n \in 1..Len(s) |-> EscapeChar(s[n])])

\* ------------------------------------------- difflib.SequenceMatcher
\* SequenceMatcher(None, a, b): isjunk is None, so bjunk is empty and only
\* the autojunk heuristic removes elements from b2j.
Count(b, x) == Cardinality({j \in 1..Len(b) : b[j] = x})

IsPopular(b, x) == Len(b) >= 200 /\ Count(b, x) > (Len(b) \div 100) + 1

\* j is listed in b2j[x]
InB2j(b, x, j) == At(b, j) = x /\ ~IsPopular(b, x)

\* newj2len[j] while the outer loop is at i: the length of the run of
\* b2j matches that ends at (i, j) and stays inside the window w.
RECURSIVE j2len(_, _, _, _, _)
j2len(a, b, w, i, j) ==
    IF i < w.alo \/ j < w.blo \/ ~InB2j(b, At(a, i), j) THEN 0
    ELSE j2len(a, b, w, i - 1, j - 1) + 1

\* The two nested loops of find_longest_match, i ascending and for each i
\* j ascending, best replaced only by a strictly longer run.  A range of
\* the loop is run as its first half followed by its second half, which
\* keeps the order of the iterations (best never shrinks).
RECURSIVE ScanRow(_, _, _, _, _, _, _)
ScanRow(a, b, w, i, jlo, jhi, best) ==
    IF jlo >= jhi THEN best
    ELSE IF jhi - jlo = 1
    THEN LET k == j2len(a, b, w, i, jlo)
         IN  IF k > best.size
             THEN [a |-> i - k + 1, b |-> jlo - k + 1, size |-> k]
             ELSE best
    ELSE LET jmid == jlo + (jhi - jlo) \div 2
             first == ScanRow(a, b, w, i, jlo, jmid, best)
         IN  IF first.size >= best.size
             THEN ScanRow(a, b, w, i, jmid, jhi, first)
             ELSE best

RECURSIVE ScanMatch(_, _, _, _, _, _)
ScanMatch(a, b, w, ilo, ihi, best) ==
    IF ilo >= ihi THEN best
    ELSE IF ihi - ilo = 1 THEN ScanRow(a, b, w, ilo, w.blo, w.bhi, best)
    ELSE LET imid == ilo + (ihi - ilo) \div 2
             first == ScanMatch(a, b, w, ilo, imid, best)
         IN  IF first.size >= best.size
             THEN ScanMatch(a, b, w, imid, ihi, first)
             ELSE best

\* extension of the best block by equal non-junk elements on both ends
RECURSIVE ExtendBack(_, _, _, _)
ExtendBack(a, b, w, m) ==
    IF m.a > w.alo /\ m.b > w.blo /\ At(a, m.a - 1) = At(b, m.b - 1)
    THEN ExtendBack(a, b, w, [a |-> m.a - 1, b |-> m.b - 1, size |-> m.size + 1])
    ELSE m

RECURSIVE ExtendFwd(_, _, _, _)
ExtendFwd(a, b, w, m) ==
    IF m.a + m.size < w.ahi /\ m.b + m.size < w.bhi
       /\ At(a, m.a + m.size) = At(b, m.b + m.size)
    THEN ExtendFwd(a, b, w, [m EXCEPT !.size = m.size + 1])
    ELSE m

find_longest_match(a, b, w) ==
    ExtendFwd(a, b, w,
        ExtendBack(a, b, w,
            ScanMatch(a, b, w, w.alo, w.ahi,
                      [a |-> w.alo, b |-> w.blo, size |-> 0])))

\* the window queue of get_matching_blocks followed by its sort(): the
\* blocks of the window before the match, the match, the blocks after it
RECURSIVE QueueBlocks(_, _, _)
QueueBlocks(a, b, w) ==
    LET x == find_longest_match(a, b, w)
    IN  IF x.size = 0 THEN <<>>
        ELSE (IF w.alo < x.a /\ w.blo < x.b
              THEN QueueBlocks(a, b, [alo |-> w.alo, ahi |-> x.a,
                                      blo |-> w.blo, bhi |-> x.b])
              ELSE <<>>)
             \o <<x>>
             \o (IF x.a + x.size < w.ahi /\ x.b + x.size < w.bhi
                 THEN QueueBlocks(a, b, [alo |-> x.a + x.size, ahi |-> w.ahi,
                                         blo |-> x.b + x.size, bhi |-> w.bhi])
                 ELSE <<>>)

\* the loop that merges adjacent blocks; cur is (i1, j1, k1)
RECURSIVE NonAdjacent(_, _)
NonAdjacent(blocks, cur) ==
    IF blocks = <<>> THEN (IF cur.size # 0 THEN <<cur>> ELSE <<>>)
    ELSE LET x == Head(blocks)
         IN  IF cur.a + cur.size = x.a /\ cur.b + cur.size = x.b
             THEN NonAdjacent(Tail(blocks), [cur EXCEPT !.size = cur.size + x.size])
             ELSE (IF cur.size # 0 THEN <<cur>> ELSE <<>>)
                  \o NonAdjacent(Tail(blocks), x)

\* get_matching_blocks without the (la, lb, 0) block that ends the list
get_matching_blocks_unterminated(a, b) ==
    NonAdjacent(QueueBlocks(a, b, [alo |-> 0, ahi |-> Len(a),
                                   blo |-> 0, bhi |-> Len(b)]),
                [a |-> 0, b |-> 0, size |-> 0])

get_matching_blocks(a, b) ==
    NonAdjacent(QueueBlocks(a, b, [alo |-> 0, ahi |-> Len(a),
                                   blo |-> 0, bhi |-> Len(b)]),
                [a |-> 0, b |-> 0, size |-> 0])
    \o <<[a |-> Len(a), b |-> Len(b), size |-> 0]>>

Opcode(tag, i1, i2, j1, j2) ==
    [tag |-> tag, i1 |-> i1, i2 |-> i2, j1 |-> j1, j2 |-> j2]

\* the loop of get_opcodes; (i, j) is where the previous block ended
RECURSIVE OpcodeLoop(_, _, _)
OpcodeLoop(blocks, i, j) ==
    IF blocks = <<>> THEN <<>>
    ELSE LET m == Head(blocks)
             tag == IF i < m.a /\ j < m.b THEN "replace"
                    ELSE IF i < m.a THEN "delete"
                    ELSE IF j < m.b THEN "insert"
                    ELSE ""
         IN  (IF tag # "" THEN <<Opcode(tag, i, m.a, j, m.b)>> ELSE <<>>)
             \o (IF m.size # 0
                 THEN <<Opcode("equal", m.a, m.a + m.size, m.b, m.b + m.size)>>
                 ELSE <<>>)
             \o OpcodeLoop(Tail(blocks), m.a + m.size, m.b + m.size)

get_opcodes(a, b) == OpcodeLoop(get_matching_blocks(a, b), 0, 0)

\* ------------------------------------------------- FileDiff.perform_diff
color_line_added == "#C8E6C9"

color_line_removed == "#FFCDD2"

color_line_replaced == "#BBDEFB"

color_line_equal == "#FAFAFA"

color_inline_diff == "#FFE082"

\* An HTML string is a sequence of tokens: a markup token (one of the three
\* below) or one character of escaped text.
POpen(bg) == <<"<p style=margin:0;background-color:", bg, ";white-space:pre;>">>

PClose == <<"</p>">>

SpanOpen == <<"<span style=background-color:", color_inline_diff, ";>">>

SpanClose == <<"</span>">>

htmlLine(text, bg_color) == POpen(bg_color) \o html_escape(text) \o PClose

wrapSpan(txt) == SpanOpen \o html_escape(txt) \o SpanClose

\* The spans of buildInlineDiff before they are escaped and wrapped: for
\* each character opcode the left and right substrings and whether the
\* code wraps them in a highlight span.
\* the span loop with "elif tag in ('insert', 'replace')": a replace opcode
\* then contributes to the left side only
RECURSIVE InlineParts_elif(_, _, _)
InlineParts_elif(left_line, right_line, ops) ==
    IF ops = <<>> THEN [left |-> <<>>, right |-> <<>>]
    ELSE LET op == Head(ops)
             l_sub == Slice(left_line, op.i1, op.i2)
             r_sub == Slice(right_line, op.j1, op.j2)
             rest == InlineParts_elif(left_line, right_line, Tail(ops))
             lp == IF op.tag = "equal" THEN <<[text |-> l_sub, hl |-> FALSE]>>
                   ELSE IF op.tag \in {"delete", "replace"}
                        THEN <<[text |-> l_sub, hl |-> TRUE]>>
                        ELSE <<>>
             rp == IF op.tag = "equal" THEN <<[text |-> r_sub, hl |-> FALSE]>>
                   ELSE IF op.tag = "insert"
                        THEN <<[text |-> r_sub, hl |-> TRUE]>>
                        ELSE <<>>
         IN  [left |-> lp \o rest.left, right |-> rp \o rest.right]

\* the span loop with "elif tag == 'delete'": the left text of a replace
\* opcode is then appended like equal text, without a span
RECURSIVE InlineParts_plainreplace(_, _, _)
InlineParts_plainreplace(left_line, right_line, ops) ==
    IF ops = <<>> THEN [left |-> <<>>, right |-> <<>>]
    ELSE LET op == Head(ops)
             l_sub == Slice(left_line, op.i1, op.i2)
             r_sub == Slice(right_line, op.j1, op.j2)
             rest == InlineParts_plainreplace(left_line, right_line, Tail(ops))
             lp == IF op.tag \in {"equal", "replace"}
                   THEN <<[text |-> l_sub, hl |-> FALSE]>>
                   ELSE IF op.tag = "delete"
                        THEN <<[text |-> l_sub, hl |-> TRUE]>>
                        ELSE <<>>
             rp == (IF op.tag = "equal" THEN <<[text |-> r_sub, hl |-> FALSE]>>
                    ELSE <<>>)
                   \o (IF op.tag \in {"insert", "replace"}
                       THEN <<[text |-> r_sub, hl |-> TRUE]>>
                       ELSE <<>>)
         IN  [left |-> lp \o rest.left, right |-> rp \o rest.right]

RECURSIVE InlineParts(_, _, _)
InlineParts(left_line, right_line, ops) ==
    IF ops = <<>> THEN [left |-> <<>>, right |-> <<>>]
    ELSE LET op == Head(ops)
             l_sub == Slice(left_line, op.i1, op.i2)
             r_sub == Slice(right_line, op.j1, op.j2)
             rest == InlineParts(left_line, right_line, Tail(ops))
             lp == IF op.tag = "equal" THEN <<[text |-> l_sub, hl |-> FALSE]>>
                   ELSE IF op.tag \in {"delete", "replace"}
                        THEN <<[text |-> l_sub, hl |-> TRUE]>>
                        ELSE <<>>
             rp == (IF op.tag = "equal" THEN <<[text |-> r_sub, hl |-> FALSE]>>
                    ELSE <<>>)
                   \o (IF op.tag \in {"insert", "replace"}
                       THEN <<[text |-> r_sub, hl |-> TRUE]>>
                       ELSE <<>>)
         IN  [left |-> lp \o rest.left, right |-> rp \o rest.right]

InlineSpans(left_line, right_line) ==
    InlineParts(left_line, right_line, get_opcodes(left_line, right_line))

PartHtml(part) == IF part.hl THEN wrapSpan(part.text) ELSE html_escape(part.text)

buildInlineDiff(left_line, right_line) ==
    LET parts == InlineSpans(left_line, right_line)
    IN  [left |-> POpen(color_line_replaced)
                  \o Concat([n \in 1..Len(parts.left) |-> PartHtml(parts.left[n])])
                  \o PClose,
         right |-> POpen(color_line_replaced)
                   \o Concat([n \in 1..Len(parts.right) |-> PartHtml(parts.right[n])])
                   \o PClose]

\* The four lists perform_diff appends to, and for each side a list that
\* records where the appended text is the literal "" of a padding row
\* (pad_left, pad_right: not program state, used to state claims).
NoRows ==
    [aligned_left |-> <<>>, aligned_right |-> <<>>,
     statuses_left |-> <<>>, statuses_right |-> <<>>,
     pad_left |-> <<>>, pad_right |-> <<>>]

ExtendRows(acc, blk) ==
    [aligned_left |-> acc.aligned_left \o blk.aligned_left,
     aligned_right |-> acc.aligned_right \o blk.aligned_right,
     statuses_left |-> acc.statuses_left \o blk.statuses_left,
     statuses_right |-> acc.statuses_right \o blk.statuses_right,
     pad_left |-> acc.pad_left \o blk.pad_left,
     pad_right |-> acc.pad_right \o blk.pad_right]

\* the equal branch looping over range(i2 - i1 - 1)
EqualRows_short(left, right, i1, i2, j1) ==
    [aligned_left |-> [o \in 1..(i2 - i1 - 1) |-> At(left, i1 + o - 1)],
     aligned_right |-> [o \in 1..(i2 - i1 - 1) |-> At(right, j1 + o - 1)],
     statuses_left |-> [o \in 1..(i2 - i1 - 1) |-> "equal"],
     statuses_right |-> [o \in 1..(i2 - i1 - 1) |-> "equal"],
     pad_left |-> [o \in 1..(i2 - i1 - 1) |-> FALSE],
     pad_right |-> [o \in 1..(i2 - i1 - 1) |-> FALSE]]

EqualRows(left, right, i1, i2, j1) ==
    [aligned_left |-> [o \in 1..(i2 - i1) |-> At(left, i1 + o - 1)],
     aligned_right |-> [o \in 1..(i2 - i1) |-> At(right, j1 + o - 1)],
     statuses_left |-> [o \in 1..(i2 - i1) |-> "equal"],
     statuses_right |-> [o \in 1..(i2 - i1) |-> "equal"],
     pad_left |-> [o \in 1..(i2 - i1) |-> FALSE],
     pad_right |-> [o \in 1..(i2 - i1) |-> FALSE]]

\* the delete branch without aligned_right.append("")
DeleteRows_unpadded(left, i1, i2) ==
    [aligned_left |-> [o \in 1..(i2 - i1) |-> At(left, i1 + o - 1)],
     aligned_right |-> <<>>,
     statuses_left |-> [o \in 1..(i2 - i1) |-> "removed"],
     statuses_right |-> [o \in 1..(i2 - i1) |-> "equal"],
     pad_left |-> [o \in 1..(i2 - i1) |-> FALSE],
     pad_right |-> <<>>]

DeleteRows(left, i1, i2) ==
    [aligned_left |-> [o \in 1..(i2 - i1) |-> At(left, i1 + o - 1)],
     aligned_right |-> [o \in 1..(i2 - i1) |-> <<>>],
     statuses_left |-> [o \in 1..(i2 - i1) |-> "removed"],
     statuses_right |-> [o \in 1..(i2 - i1) |-> "equal"],
     pad_left |-> [o \in 1..(i2 - i1) |-> FALSE],
     pad_right |-> [o \in 1..(i2 - i1) |-> TRUE]]

\* the insert branch with the two status appends exchanged
InsertRows_swapped(right, j1, j2) ==
    [aligned_left |-> [o \in 1..(j2 - j1) |-> <<>>],
     aligned_right |-> [o \in 1..(j2 - j1) |-> At(right, j1 + o - 1)],
     statuses_left |-> [o \in 1..(j2 - j1) |-> "added"],
     statuses_right |-> [o \in 1..(j2 - j1) |-> "equal"],
     pad_left |-> [o \in 1..(j2 - j1) |-> TRUE],
     pad_right |-> [o \in 1..(j2 - j1) |-> FALSE]]

InsertRows(right, j1, j2) ==
    [aligned_left |-> [o \in 1..(j2 - j1) |-> <<>>],
     aligned_right |-> [o \in 1..(j2 - j1) |-> At(right, j1 + o - 1)],
     statuses_left |-> [o \in 1..(j2 - j1) |-> "equal"],
     statuses_right |-> [o \in 1..(j2 - j1) |-> "added"],
     pad_left |-> [o \in 1..(j2 - j1) |-> TRUE],
     pad_right |-> [o \in 1..(j2 - j1) |-> FALSE]]

\* the positional pairing of a nested replace opcode (lines 456-474)
\* the status chain without its "elif r_line and not l_line" branch
ReplaceStatus_nobranch(l_line, r_line) ==
    IF l_line # <<>> /\ r_line # <<>> THEN <<"replaced", "replaced">>
    ELSE IF l_line # <<>> /\ r_line = <<>> THEN <<"removed", "equal">>
    ELSE <<"equal", "equal">>

\* the status chain opening with "if l_line or r_line"
ReplaceStatus_or(l_line, r_line) ==
    IF l_line # <<>> \/ r_line # <<>> THEN <<"replaced", "replaced">>
    ELSE <<"equal", "equal">>

ReplaceStatus(l_line, r_line) ==
    IF l_line # <<>> /\ r_line # <<>> THEN <<"replaced", "replaced">>
    ELSE IF l_line # <<>> /\ r_line = <<>> THEN <<"removed", "equal">>
    ELSE IF r_line # <<>> /\ l_line = <<>> THEN <<"equal", "added">>
    ELSE <<"equal", "equal">>

\* the replace branch with count = min(...) instead of max(...)
ReplaceRows_truncated(left_block, right_block, si1, si2, sj1, sj2) ==
    LET count == Min(si2 - si1, sj2 - sj1)
    IN  [aligned_left |-> [o \in 1..count |-> At(left_block, si1 + o - 1)],
         aligned_right |-> [o \in 1..count |-> At(right_block, sj1 + o - 1)],
         statuses_left |-> [o \in 1..count |->
             ReplaceStatus(At(left_block, si1 + o - 1), At(right_block, sj1 + o - 1))[1]],
         statuses_right |-> [o \in 1..count |->
             ReplaceStatus(At(left_block, si1 + o - 1), At(right_block, sj1 + o - 1))[2]],
         pad_left |-> [o \in 1..count |-> FALSE],
         pad_right |-> [o \in 1..count |-> FALSE]]

ReplaceRows(left_block, right_block, si1, si2, sj1, sj2) ==
    LET count == Max(si2 - si1, sj2 - sj1)
        l_line(offset) == IF offset < si2 - si1
                          THEN At(left_block, si1 + offset) ELSE <<>>
        r_line(offset) == IF offset < sj2 - sj1
                          THEN At(right_block, sj1 + offset) ELSE <<>>
    IN  [aligned_left |-> [o \in 1..count |-> l_line(o - 1)],
         aligned_right |-> [o \in 1..count |-> r_line(o - 1)],
         statuses_left |-> [o \in 1..count |->
                               ReplaceStatus(l_line(o - 1), r_line(o - 1))[1]],
         statuses_right |-> [o \in 1..count |->
                               ReplaceStatus(l_line(o - 1), r_line(o - 1))[2]],
         pad_left |-> [o \in 1..count |-> ~(o - 1 < si2 - si1)],
         pad_right |-> [o \in 1..count |-> ~(o - 1 < sj2 - sj1)]]

\* the loop over sub_matcher.get_opcodes() (lines 437-474)
RECURSIVE SubRows(_, _, _)
SubRows(left_block, right_block, ops) ==
    IF ops = <<>> THEN NoRows
    ELSE LET op == Head(ops)
             blk == CASE op.tag = "equal" ->
                            EqualRows(left_block, right_block, op.i1, op.i2, op.j1)
                      [] op.tag = "delete" -> DeleteRows(left_block, op.i1, op.i2)
                      [] op.tag = "insert" -> InsertRows(right_block, op.j1, op.j2)
                      [] op.tag = "replace" ->
                            ReplaceRows(left_block, right_block,
                                        op.i1, op.i2, op.j1, op.j2)
         IN  ExtendRows(blk, SubRows(left_block, right_block, Tail(ops)))

\* the loop over top_matcher.get_opcodes() (lines 414-474)
RECURSIVE TopRows(_, _, _)
TopRows(left_lines, right_lines, ops) ==
    IF ops = <<>> THEN NoRows
    ELSE LET op == Head(ops)
             left_block == Slice(left_lines, op.i1, op.i2)
             right_block == Slice(right_lines, op.j1, op.j2)
             blk == CASE op.tag = "equal" ->
                            EqualRows(left_lines, right_lines, op.i1, op.i2, op.j1)
                      [] op.tag = "delete" -> DeleteRows(left_lines, op.i1, op.i2)
                      [] op.tag = "insert" -> InsertRows(right_lines, op.j1, op.j2)
                      [] op.tag = "replace" ->
                            SubRows(left_block, right_block,
                                    get_opcodes(left_block, right_block))
         IN  ExtendRows(blk, TopRows(left_lines, right_lines, Tail(ops)))

AlignedRows(left_lines, right_lines) ==
    TopRows(left_lines, right_lines, get_opcodes(left_lines, right_lines))

\* the rendering pass over zip(aligned_left, aligned_right) (lines 477-496):
\* the branch of the if chain a row takes
RowBranch(l_line, r_line, l_stat, r_stat) ==
    IF l_stat = "equal" /\ r_stat = "equal" THEN "equal"
    ELSE IF l_stat = "removed" THEN "removed"
    ELSE IF r_stat = "added" THEN "added"
    ELSE IF l_line # <<>> /\ r_line # <<>> THEN "buildInlineDiff"
    ELSE "replaced"

\* and the two paragraphs that branch appends
RowHtml(l_line, r_line, l_stat, r_stat) ==
    CASE RowBranch(l_line, r_line, l_stat, r_stat) = "equal" ->
            [left |-> htmlLine(l_line, color_line_equal),
             right |-> htmlLine(r_line, color_line_equal)]
      [] RowBranch(l_line, r_line, l_stat, r_stat) = "removed" ->
            [left |-> htmlLine(l_line, color_line_removed),
             right |-> htmlLine(r_line, color_line_equal)]
      [] RowBranch(l_line, r_line, l_stat, r_stat) = "added" ->
            [left |-> htmlLine(l_line, color_line_equal),
             right |-> htmlLine(r_line, color_line_added)]
      [] RowBranch(l_line, r_line, l_stat, r_stat) = "buildInlineDiff" ->
            buildInlineDiff(l_line, r_line)
      [] RowBranch(l_line, r_line, l_stat, r_stat) = "replaced" ->
            [left |-> htmlLine(l_line, color_line_replaced),
             right |-> htmlLine(r_line, color_line_replaced)]

perform_diff(left_text, right_text) ==
    LET left_lines == splitlines(left_text)
        right_lines == splitlines(right_text)
        rows == AlignedRows(left_lines, right_lines)
        n == Min(Len(rows.aligned_left), Len(rows.aligned_right))
        html(i) == RowHtml(rows.aligned_left[i], rows.aligned_right[i],
                           rows.statuses_left[i], rows.statuses_right[i])
    IN  [final_left_html |-> [i \in 1..n |-> html(i).left],
         final_right_html |-> [i \in 1..n |-> html(i).right],
         statuses_left |-> rows.statuses_left,
         statuses_right |-> rows.statuses_right]

\* ------------------------------------------------------ the file system
\* The paths a user can enter or pick: no file, a text file, and a file
\* larger than MAX_TEXT_FILE_SIZE.
MAX_TEXT_FILE_SIZE == 10 * 1024 * 1024

Paths == {"", "t.txt", "big.bin"}

isfile(p) == p \in {"t.txt", "big.bin"}

getsize(p) == IF p = "big.bin" THEN MAX_TEXT_FILE_SIZE + 1 ELSE 3

FileContent(p) == <<"a", NL, "<">>

\* the lines of the hex dump process_binary_view renders for a file
HexDump(p) == << <<"00000000", p>> >>

\* ----------------------------------------------------- editors and HTML
None == 0

MarkupTokens ==
    {"<p style=margin:0;background-color:", ";white-space:pre;>", "</p>",
     "<span style=background-color:", ";>", "</span>",
     color_line_added, color_line_removed, color_line_replaced,
     color_line_equal, color_inline_diff}

EscapedChars == {"&", "<", ">", "\"", "'"}

IsPrefix(p, h) == Len(p) <= Len(h) /\ SubSeq(h, 1, Len(p)) = p

\* the plain text QTextDocument holds for one paragraph of HTML
RECURSIVE PlainOf(_)
PlainOf(h) ==
    IF h = <<>> THEN <<>>
    ELSE IF Head(h) \in MarkupTokens THEN PlainOf(Tail(h))
    ELSE IF \E c \in EscapedChars : IsPrefix(EscapeChar(c), h)
    THEN LET c == CHOOSE x \in EscapedChars : IsPrefix(EscapeChar(x), h)
         IN  <<c>> \o PlainOf(SubSeq(h, Len(EscapeChar(c)) + 1, Len(h)))
    ELSE <<Head(h)>> \o PlainOf(Tail(h))

\* QTextEdit.setHtml of a list of paragraphs: one block per paragraph, and a
\* document never has fewer than one block
DocBlocks(paras) ==
    IF paras = <<>> THEN << <<>> >>
    ELSE [n \in 1..Len(paras) |-> PlainOf(paras[n])]

EmptyEditor == [blocks |-> << <<>> >>, lineStatus |-> <<>>]

setHtml(editor, paras) == [editor EXCEPT !.blocks = DocBlocks(paras)]

clear(editor) == [editor EXCEPT !.blocks = << <<>> >>]

getEditorPlainText(editor) == Join(editor.blocks)

buildHtmlForUnhighlighted(text) ==
    [n \in 1..Len(splitlines(text)) |->
        htmlLine(splitlines(text)[n], color_line_equal)]

reset_highlight(editor) ==
    [blocks |-> DocBlocks(buildHtmlForUnhighlighted(getEditorPlainText(editor))),
     lineStatus |-> <<>>]

\* ------------------------------------------- FileDiff: the main thread
\* The handlers below are functions from window state to window state, so that
\* a handler that calls another one is their composition.
Window ==
    [editor_left |-> editor_left, editor_right |-> editor_right,
     path_input_left |-> path_input_left, path_input_right |-> path_input_right,
     binary_view_checked |-> binary_view_checked,
     diff_worker |-> diff_worker, binary_worker_left |-> binary_worker_left,
     binary_worker_right |-> binary_worker_right,
     threads |-> threads, dialogs |-> dialogs, last_msg |-> last_msg]

Becomes(s) ==
    /\ editor_left' = s.editor_left
    /\ editor_right' = s.editor_right
    /\ path_input_left' = s.path_input_left
    /\ path_input_right' = s.path_input_right
    /\ binary_view_checked' = s.binary_view_checked
    /\ diff_worker' = s.diff_worker
    /\ binary_worker_left' = s.binary_worker_left
    /\ binary_worker_right' = s.binary_worker_right
    /\ threads' = s.threads
    /\ dialogs' = s.dialogs
    /\ last_msg' = s.last_msg

clear_highlights(s) ==
    [s EXCEPT !.editor_left = reset_highlight(s.editor_left),
              !.editor_right = reset_highlight(s.editor_right)]

\* WorkerThread(fn, *args) followed by start()
NewThread(kind, side, dialog, a1, a2) ==
    [kind |-> kind, side |-> side, dialog |-> dialog, arg1 |-> a1, arg2 |-> a2,
     st |-> "running", signal |-> "none", result |-> <<>>,
     results |-> 0, errors |-> 0]

\* QProgressDialog(..., 0, maximum, self), ApplicationModal, shown at once
NewDialog(value, maximum) ==
    [value |-> value, maximum |-> maximum, visible |-> TRUE]

process_binary_view_for_both(s) ==
    LET left_path == s.path_input_left
        right_path == s.path_input_right
        d == Len(s.dialogs) + 1
        tl == Len(s.threads) + 1
        tr == IF isfile(left_path) THEN tl + 1 ELSE tl
        s1 == IF isfile(left_path)
              THEN [s EXCEPT !.binary_worker_left = tl,
                             !.threads = Append(@, NewThread("binary", "left", d,
                                                             left_path, ""))]
              ELSE [s EXCEPT !.editor_left = clear(@)]
        s2 == IF isfile(right_path)
              THEN [s1 EXCEPT !.binary_worker_right = tr,
                              !.threads = Append(@, NewThread("binary", "right", d,
                                                              right_path, ""))]
              ELSE [s1 EXCEPT !.editor_right = clear(@)]
        value == (IF isfile(left_path) THEN 0 ELSE 1)
                 + (IF isfile(right_path) THEN 0 ELSE 1)
    IN  \* a dialog whose value reached its maximum has closed itself and no
        \* handler holds it
        IF value >= 2 THEN s2
        ELSE [s2 EXCEPT !.dialogs = Append(@, NewDialog(value, 2))]

toggle_binary_view_helper(s) == process_binary_view_for_both(clear_highlights(s))

load_file(s, file_path, is_left) ==
    IF getsize(file_path) > MAX_TEXT_FILE_SIZE THEN toggle_binary_view_helper(s)
    ELSE IF is_left
    THEN [s EXCEPT !.editor_left =
              setHtml(@, buildHtmlForUnhighlighted(FileContent(file_path)))]
    ELSE [s EXCEPT !.editor_right =
              setHtml(@, buildHtmlForUnhighlighted(FileContent(file_path)))]

update_left_file_display(s) ==
    IF isfile(s.path_input_left)
    THEN IF s.binary_view_checked THEN toggle_binary_view_helper(s)
         ELSE load_file(s, s.path_input_left, TRUE)
    ELSE [s EXCEPT !.editor_left = clear(@)]

update_right_file_display(s) ==
    IF isfile(s.path_input_right)
    THEN IF s.binary_view_checked THEN toggle_binary_view_helper(s)
         ELSE load_file(s, s.path_input_right, FALSE)
    ELSE [s EXCEPT !.editor_right = clear(@)]

\* QLineEdit.setText / clear: textChanged fires only when the text changes
setTextLeft(s, text) ==
    IF text = s.path_input_left THEN s
    ELSE update_left_file_display([s EXCEPT !.path_input_left = text])

setTextRight(s, text) ==
    IF text = s.path_input_right THEN s
    ELSE update_right_file_display([s EXCEPT !.path_input_right = text])

open_file_left(s, file_path) == load_file(setTextLeft(s, file_path), file_path, TRUE)

open_file_right(s, file_path) == load_file(setTextRight(s, file_path), file_path, FALSE)

toggle_binary_view(s) ==
    LET s1 == clear_highlights(s)
    IN  IF s1.binary_view_checked THEN toggle_binary_view_helper(s1)
        ELSE update_right_file_display(update_left_file_display(clear_highlights(s1)))

clear_fields(s) ==
    LET s1 == setTextRight(setTextLeft(s, ""), "")
    IN  [s1 EXCEPT !.editor_left = clear(@), !.editor_right = clear(@)]

\* compare_files whose progress dialog is created but never shown
compare_files_unshown(s) ==
    LET left_text == getEditorPlainText(s.editor_left)
        right_text == getEditorPlainText(s.editor_right)
        t == Len(s.threads) + 1
        d == Len(s.dialogs) + 1
    IN  IF left_text = <<>> \/ right_text = <<>>
        THEN [s EXCEPT !.last_msg = "Comparison Error"]
        ELSE [s EXCEPT !.dialogs = Append(@, [NewDialog(0, 0) EXCEPT !.visible = FALSE]),
                       !.threads = Append(@, NewThread("diff", "", d,
                                                       left_text, right_text)),
                       !.diff_worker = t]

\* compare_files with "if not left_text and not right_text"
compare_files_and(s) ==
    LET left_text == getEditorPlainText(s.editor_left)
        right_text == getEditorPlainText(s.editor_right)
        t == Len(s.threads) + 1
        d == Len(s.dialogs) + 1
    IN  IF left_text = <<>> /\ right_text = <<>>
        THEN [s EXCEPT !.last_msg = "Comparison Error"]
        ELSE [s EXCEPT !.dialogs = Append(@, NewDialog(0, 0)),
                       !.threads = Append(@, NewThread("diff", "", d,
                                                       left_text, right_text)),
                       !.diff_worker = t]

compare_files(s) ==
    LET left_text == getEditorPlainText(s.editor_left)
        right_text == getEditorPlainText(s.editor_right)
        t == Len(s.threads) + 1
        d == Len(s.dialogs) + 1
    IN  IF left_text = <<>> \/ right_text = <<>>
        THEN [s EXCEPT !.last_msg = "Comparison Error"]
        ELSE [s EXCEPT !.dialogs = Append(@, NewDialog(0, 0)),
                       !.threads = Append(@, NewThread("diff", "", d,
                                                       left_text, right_text)),
                       !.diff_worker = t]

\* on_compare_done: lineStatus[i] for i in range(block_count)
StatusMap(statuses, block_count) ==
    [i \in 1..block_count |-> IF i <= Len(statuses) THEN statuses[i] ELSE "equal"]

Finished(s, w) == IF w = None THEN TRUE ELSE s.threads[w].st = "finished"

\* wait() returns only when the thread has finished: a handler that waits
\* for a worker can complete only in a state where CanWait holds
CanWaitDiff(s) == Finished(s, s.diff_worker)

CanWaitAll(s) ==
    /\ Finished(s, s.diff_worker)
    /\ Finished(s, s.binary_worker_left)
    /\ Finished(s, s.binary_worker_right)

on_compare_done(s, result, progress_dialog) ==
    LET block_count == Max(Len(result.final_left_html), Len(result.final_right_html))
    IN  [s EXCEPT
            !.dialogs[progress_dialog].visible = FALSE,
            !.editor_left = [blocks |-> DocBlocks(result.final_left_html),
                             lineStatus |-> StatusMap(result.statuses_left, block_count)],
            !.editor_right = [blocks |-> DocBlocks(result.final_right_html),
                              lineStatus |-> StatusMap(result.statuses_right, block_count)],
            !.diff_worker = None]

\* on_worker_error that also empties the editors
on_worker_error_clearing(s, progress_dialog) ==
    [s EXCEPT !.dialogs[progress_dialog].visible = FALSE,
              !.last_msg = "Error",
              !.editor_left = clear(@),
              !.editor_right = clear(@),
              !.diff_worker = None,
              !.binary_worker_left = None,
              !.binary_worker_right = None]

on_worker_error(s, progress_dialog) ==
    [s EXCEPT !.dialogs[progress_dialog].visible = FALSE,
              !.last_msg = "Error",
              !.diff_worker = None,
              !.binary_worker_left = None,
              !.binary_worker_right = None]

on_binary_done_aggregated(s, result, side, progress_dialog) ==
    LET s1 == IF side = "left"
              THEN [s EXCEPT !.editor_left = [@ EXCEPT !.blocks = result],
                             !.binary_worker_left = None]
              ELSE [s EXCEPT !.editor_right = [@ EXCEPT !.blocks = result],
                             !.binary_worker_right = None]
        dlg == s.dialogs[progress_dialog]
    IN  [s1 EXCEPT !.dialogs[progress_dialog] =
            [dlg EXCEPT !.value = dlg.value + 1,
                        !.visible = dlg.visible /\ dlg.value + 1 < dlg.maximum]]

\* ---------------------------------------------------------------- actions
NoRet == [fn |-> "none"]

Harness == <<arg_left, arg_right, ret>>

ModalVisible == \E d \in 1..Len(dialogs) : dialogs[d].visible

Slots == {diff_worker, binary_worker_left, binary_worker_right}

\* a menu entry, a button or a line edit reaches its handler only while no
\* application-modal progress dialog is shown
UserActionUpTo(s, limit) ==
    /\ ~crashed
    /\ ~ModalVisible
    /\ Len(s.threads) <= limit
    /\ Becomes(s)
    /\ UNCHANGED <<crashed, Harness>>

UserAction(s) == UserActionUpTo(s, MaxThreads)

Quiet == [Window EXCEPT !.last_msg = ""]

OpenFileLeft ==
    \E file_path \in Paths : isfile(file_path) /\ UserAction(open_file_left(Quiet, file_path))

OpenFileRight ==
    \E file_path \in Paths : isfile(file_path) /\ UserAction(open_file_right(Quiet, file_path))

EditPathLeft ==
    \E text \in Paths : text # path_input_left /\ UserAction(setTextLeft(Quiet, text))

EditPathRight ==
    \E text \in Paths : text # path_input_right /\ UserAction(setTextRight(Quiet, text))

CompareFiles == UserAction(compare_files(Quiet))

ClearHighlights == UserAction(clear_highlights(Quiet))

ToggleBinaryView ==
    UserAction(toggle_binary_view(
        [Quiet EXCEPT !.binary_view_checked = ~binary_view_checked]))

ClearFields == UserAction(clear_fields(Quiet))

\* WorkerThread.run on its own thread: fn returns and resultReady is emitted,
\* or fn raises and errorOccurred is emitted; the signal is queued for the
\* main thread
WorkerRun ==
    \E t \in 1..Len(threads) : \E raised \in BOOLEAN :
        /\ ~crashed
        /\ threads[t].st = "running"
        /\ threads' = [threads EXCEPT
              ![t].st = "finished",
              ![t].signal = IF raised THEN "errorOccurred" ELSE "resultReady",
              ![t].result = IF raised THEN <<>>
                            ELSE IF threads[t].kind = "diff"
                                 THEN perform_diff(threads[t].arg1, threads[t].arg2)
                                 ELSE HexDump(threads[t].arg1)]
        /\ UNCHANGED <<editor_left, editor_right, path_input_left, path_input_right,
                       binary_view_checked, diff_worker, binary_worker_left,
                       binary_worker_right, dialogs, last_msg, crashed, Harness>>

Pending(t, signal) ==
    /\ threads[t].st = "finished"
    /\ threads[t].signal = signal
    /\ threads[t].results + threads[t].errors = 0

Delivered(s, t) ==
    [s EXCEPT !.threads[t].results = @ + (IF threads[t].signal = "resultReady" THEN 1 ELSE 0),
              !.threads[t].errors = @ + (IF threads[t].signal = "errorOccurred" THEN 1 ELSE 0),
              !.threads[t].arg1 = IF threads[t].kind = "diff" THEN <<>> ELSE "",
              !.threads[t].arg2 = IF threads[t].kind = "diff" THEN <<>> ELSE "",
              !.threads[t].result = <<>>]

OnCompareDone ==
    \E t \in 1..Len(threads) :
        /\ ~crashed
        /\ threads[t].kind = "diff"
        /\ Pending(t, "resultReady")
        /\ CanWaitDiff(Window)
        /\ Becomes(Delivered(on_compare_done(Quiet, threads[t].result,
                                             threads[t].dialog), t))
        /\ UNCHANGED <<crashed, Harness>>

OnWorkerError ==
    \E t \in 1..Len(threads) :
        /\ ~crashed
        /\ Pending(t, "errorOccurred")
        /\ CanWaitAll(Window)
        /\ Becomes(Delivered(on_worker_error(Quiet, threads[t].dialog), t))
        /\ UNCHANGED <<crashed, Harness>>

OnBinaryDoneAggregated ==
    \E t \in 1..Len(threads) :
        /\ ~crashed
        /\ threads[t].kind = "binary"
        /\ Pending(t, "resultReady")
        /\ Finished(Window, IF threads[t].side = "left" THEN binary_worker_left
                            ELSE binary_worker_right)
        /\ Becomes(Delivered(on_binary_done_aggregated(Quiet, threads[t].result,
                                 threads[t].side, threads[t].dialog), t))
        /\ UNCHANGED <<crashed, Harness>>

\* A WorkerThread that no attribute refers to any more while its thread is
\* still running is destroyed by the garbage collector: Qt aborts the
\* process ("QThread: Destroyed while thread is still running").  When the
\* collector runs relative to the thread's end is not determined, so the
\* thread may also finish first (WorkerRun).
Abort ==
    /\ ~crashed
    /\ \E t \in 1..Len(threads) : threads[t].st = "running" /\ t \notin Slots
    /\ crashed' = TRUE
    /\ UNCHANGED <<editor_left, editor_right, path_input_left, path_input_right,
                   binary_view_checked, diff_worker, binary_worker_left,
                   binary_worker_right, threads, dialogs, last_msg, Harness>>

Init ==
    /\ editor_left = EmptyEditor
    /\ editor_right = EmptyEditor
    /\ path_input_left = ""
    /\ path_input_right = ""
    /\ binary_view_checked = FALSE
    /\ diff_worker = None
    /\ binary_worker_left = None
    /\ binary_worker_right = None
    /\ threads = <<>>
    /\ dialogs = <<>>
    /\ last_msg = ""
    /\ crashed = FALSE
    /\ arg_left = <<>>
    /\ arg_right = <<>>
    /\ ret = NoRet

Next ==
    \/ OpenFileLeft
    \/ OpenFileRight
    \/ EditPathLeft
    \/ EditPathRight
    \/ CompareFiles
    \/ ClearHighlights
    \/ ToggleBinaryView
    \/ ClearFields
    \/ WorkerRun
    \/ OnCompareDone
    \/ OnWorkerError
    \/ OnBinaryDoneAggregated
    \/ Abort

Spec == Init /\ [][Next]_vars

\* The runs of the window in which the user only types the right path,
\* opens a left file and compares: fewer interleavings, more threads.
DeepEditPathRight ==
    \E text \in Paths :
        text # path_input_right /\ UserActionUpTo(setTextRight(Quiet, text), DeepThreads)

DeepOpenFileLeft ==
    \E file_path \in Paths :
        isfile(file_path) /\ UserActionUpTo(open_file_left(Quiet, file_path), DeepThreads)

DeepCompareFiles == UserActionUpTo(compare_files(Quiet), DeepThreads)

NextDeep ==
    \/ DeepEditPathRight
    \/ DeepOpenFileLeft
    \/ DeepCompareFiles
    \/ WorkerRun
    \/ OnCompareDone
    \/ OnWorkerError
    \/ OnBinaryDoneAggregated
    \/ Abort

SpecDeep == Init /\ [][NextDeep]_vars

\* ------------------------------------------- the diff functions called directly
\* The engine's functions are pure; these specifications call one of them
\* on every input within the bounds and keep what it returned.
DiffLines == {<<>>, <<"a">>, <<"<", "a">>}

InlineChars == {"a", "b", "<"}

SeqsUpTo(S, n) == UNION {[1..k -> S] : k \in 0..n}

\* a text whose lines are exactly ls
Unlines(ls) == Concat([n \in 1..Len(ls) |-> ls[n] \o <<NL>>])

DiffTexts == {Unlines(ls) : ls \in SeqsUpTo(DiffLines, MaxLines)}

\* A pair of files on which the matcher's autojunk heuristic acts: the long
\* side has 200 lines, the line "a" four times (more than 1% + 1 of them),
\* and apart from the first six lines only lines the short side lacks.
LongTail == [n \in 1..194 |-> <<ToString(n)>>]

ShortLines == << <<"<">>, <<"a">>, <<"a">>, <<"a">>, <<"a">>, <<"b">> >>

LongLines == << <<"a">>, <<"a">>, <<"a">>, <<"a">>, <<"<", "a">>, <<"b">> >> \o LongTail

LongPairs ==
    {<<Unlines(ShortLines), Unlines(LongLines)>>,
     <<Unlines(LongLines), Unlines(ShortLines)>>}

\* the pair of lines the inline differ is documented with
InlineExamples ==
    {<<"f", "o", "o", "b", "a", "r">>, <<"f", "o", "o", "b", "a", "z">>}

InlineStrings == SeqsUpTo(InlineChars, MaxChars) \cup InlineExamples

WindowIdle ==
    /\ editor_left = EmptyEditor
    /\ editor_right = EmptyEditor
    /\ path_input_left = ""
    /\ path_input_right = ""
    /\ binary_view_checked = FALSE
    /\ diff_worker = None
    /\ binary_worker_left = None
    /\ binary_worker_right = None
    /\ threads = <<>>
    /\ dialogs = <<>>
    /\ last_msg = ""
    /\ crashed = FALSE

WindowUnchanged ==
    UNCHANGED <<editor_left, editor_right, path_input_left, path_input_right,
                binary_view_checked, diff_worker, binary_worker_left,
                binary_worker_right, threads, dialogs, last_msg, crashed>>

InitDiff ==
    /\ WindowIdle
    /\ \/ arg_left \in DiffTexts /\ arg_right \in DiffTexts
       \/ \E pair \in LongPairs : arg_left = pair[1] /\ arg_right = pair[2]
    /\ ret = NoRet

CallPerformDiff ==
    /\ ret = NoRet
    /\ ret' = [fn |-> "perform_diff",
               value |-> perform_diff(arg_left, arg_right),
               rows |-> AlignedRows(splitlines(arg_left), splitlines(arg_right))]
    /\ UNCHANGED <<arg_left, arg_right>>
    /\ WindowUnchanged

NextDiff == CallPerformDiff

SpecDiff == InitDiff /\ [][NextDiff]_vars

InitInline ==
    /\ WindowIdle
    /\ arg_left \in InlineStrings
    /\ arg_right \in InlineStrings
    /\ ret = NoRet

CallBuildInlineDiff ==
    /\ ret = NoRet
    /\ ret' = [fn |-> "buildInlineDiff",
               value |-> buildInlineDiff(arg_left, arg_right),
               spans |-> InlineSpans(arg_left, arg_right)]
    /\ UNCHANGED <<arg_left, arg_right>>
    /\ WindowUnchanged

NextInline == CallBuildInlineDiff

SpecInline == InitInline /\ [][NextInline]_vars

\* ------------------------------------------------ properties of the engine
LeftLines == splitlines(arg_left)

RightLines == splitlines(arg_right)

Called(fn) == ret.fn = fn

Span(op) == Max(op.i2 - op.i1, op.j2 - op.j1)

Range(f) == {f[n] : n \in 1..Len(f)}

\* ops covers [0, la) and [0, lb) in order without gap or overlap
Contiguous(ops, la, lb) ==
    IF ops = <<>> THEN la = 0 /\ lb = 0
    ELSE /\ ops[1].i1 = 0 /\ ops[1].j1 = 0
         /\ \A k \in 1..Len(ops) : ops[k].i1 <= ops[k].i2 /\ ops[k].j1 <= ops[k].j2
         /\ \A k \in 1..(Len(ops) - 1) :
                ops[k + 1].i1 = ops[k].i2 /\ ops[k + 1].j1 = ops[k].j2
         /\ ops[Len(ops)].i2 = la /\ ops[Len(ops)].j2 = lb

\* the opcodes whose rows perform_diff emits: the top-level opcodes, each
\* replace opcode standing for the opcodes of its sub_matcher (in the
\* indices of the whole sequences)
Shifted(ops, di, dj) ==
    [k \in 1..Len(ops) |->
        Opcode(ops[k].tag, ops[k].i1 + di, ops[k].i2 + di,
               ops[k].j1 + dj, ops[k].j2 + dj)]

RECURSIVE Flatten(_, _, _)
Flatten(left_lines, right_lines, ops) ==
    IF ops = <<>> THEN <<>>
    ELSE LET op == Head(ops)
         IN  (IF op.tag = "replace"
              THEN Shifted(get_opcodes(Slice(left_lines, op.i1, op.i2),
                                       Slice(right_lines, op.j1, op.j2)),
                           op.i1, op.j1)
              ELSE <<op>>)
             \o Flatten(left_lines, right_lines, Tail(ops))

LeafOpcodes(left_lines, right_lines) ==
    Flatten(left_lines, right_lines, get_opcodes(left_lines, right_lines))

\* C1: the opcodes of the line matcher partition both index ranges: the
\* first starts at (0, 0), each starts where the previous one ended, the
\* last ends at (len(left), len(right)).
C1_OpcodesPartition ==
    Called("perform_diff") =>
        Contiguous(get_opcodes(LeftLines, RightLines), Len(LeftLines), Len(RightLines))

C1_Witness ==
    /\ Called("perform_diff")
    /\ Len(get_opcodes(LeftLines, RightLines)) >= 3
    /\ \E k \in 1..Len(get_opcodes(LeftLines, RightLines)) :
           get_opcodes(LeftLines, RightLines)[k].tag = "replace"

\* C2: the four lists perform_diff returns have one length N, N is the sum
\* of max(leftSpan, rightSpan) over the opcodes whose rows are emitted, and
\* N >= max(len(leftLines), len(rightLines)).
C2_RowCount ==
    Called("perform_diff") =>
        LET N == Len(ret.value.final_left_html)
            ops == LeafOpcodes(LeftLines, RightLines)
        IN  /\ Len(ret.value.final_right_html) = N
            /\ Len(ret.value.statuses_left) = N
            /\ Len(ret.value.statuses_right) = N
            /\ N = SumSeq([k \in 1..Len(ops) |-> Span(ops[k])])
            /\ N >= Max(Len(LeftLines), Len(RightLines))

C2_Witness ==
    /\ Called("perform_diff")
    /\ Len(ret.value.final_left_html) > Max(Len(LeftLines), Len(RightLines))
    /\ \E i \in 1..Len(ret.value.statuses_left) :
           ret.value.statuses_left[i] = "removed"

\* the texts of the rows that are not padding, in row order
RealTexts(texts, pads) ==
    Concat([n \in 1..Min(Len(texts), Len(pads)) |->
               IF pads[n] THEN <<>> ELSE <<texts[n]>>])

\* C3: rows are in document order: the left texts of the rows that carry a
\* real left line are exactly leftLines in order, each line in one row; the
\* same for the right side; the returned HTML row i shows the text of row i.
C3_DocumentOrder ==
    Called("perform_diff") =>
        /\ RealTexts(ret.rows.aligned_left, ret.rows.pad_left) = LeftLines
        /\ RealTexts(ret.rows.aligned_right, ret.rows.pad_right) = RightLines
        /\ Len(ret.rows.pad_left) = Len(ret.rows.aligned_left)
        /\ Len(ret.rows.pad_right) = Len(ret.rows.aligned_right)
        /\ \A i \in 1..Len(ret.value.final_left_html) :
               /\ PlainOf(ret.value.final_left_html[i]) = ret.rows.aligned_left[i]
               /\ PlainOf(ret.value.final_right_html[i]) = ret.rows.aligned_right[i]

C3_Witness ==
    /\ Called("perform_diff")
    /\ Len(LeftLines) >= 2
    /\ Len(RightLines) >= 2
    /\ \E i \in 1..Len(ret.rows.pad_left) : ret.rows.pad_left[i]
    /\ \E i \in 1..Len(ret.rows.pad_right) : ret.rows.pad_right[i]
    /\ \E i \in 1..Len(ret.rows.statuses_left) : ret.rows.statuses_left[i] = "replaced"

SpanTexts(spans) == Concat([n \in 1..Len(spans) |-> spans[n].text])

\* C4: for every pair of strings the texts of the left spans of
\* buildInlineDiff, concatenated in order, are leftLine, and those of the
\* right spans are rightLine.
C4_InlineRoundTrip ==
    Called("buildInlineDiff") =>
        /\ SpanTexts(ret.spans.left) = arg_left
        /\ SpanTexts(ret.spans.right) = arg_right
        /\ PlainOf(ret.value.left) = arg_left
        /\ PlainOf(ret.value.right) = arg_right

C4_Witness ==
    /\ Called("buildInlineDiff")
    /\ Len(ret.spans.left) >= 2
    /\ \E n \in 1..Len(ret.spans.left) : ret.spans.left[n].hl
    /\ \E n \in 1..Len(ret.spans.right) : ret.spans.right[n].hl
    /\ \E n \in 1..Len(arg_left) : arg_left[n] = "<"

C4_WitnessNoCommon ==
    /\ Called("buildInlineDiff")
    /\ arg_left # <<>>
    /\ arg_right # <<>>
    /\ \A n \in 1..Len(arg_left) : \A m \in 1..Len(arg_right) : arg_left[n] # arg_right[m]

\* C5: diffing a line sequence L against itself yields len(L) rows, row i
\* is (L[i], L[i], equal, equal), and no row is padding.
C5_SelfDiff ==
    (Called("perform_diff") /\ LeftLines = RightLines) =>
        LET N == Len(LeftLines)
        IN  /\ Len(ret.value.final_left_html) = N
            /\ Len(ret.value.final_right_html) = N
            /\ Len(ret.value.statuses_left) = N
            /\ Len(ret.value.statuses_right) = N
            /\ Len(ret.rows.aligned_left) = N
            /\ Len(ret.rows.aligned_right) = N
            /\ \A i \in 1..N :
                   /\ ret.rows.aligned_left[i] = LeftLines[i]
                   /\ ret.rows.aligned_right[i] = LeftLines[i]
                   /\ PlainOf(ret.value.final_left_html[i]) = LeftLines[i]
                   /\ PlainOf(ret.value.final_right_html[i]) = LeftLines[i]
                   /\ ret.value.statuses_left[i] = "equal"
                   /\ ret.value.statuses_right[i] = "equal"
                   /\ ~ret.rows.pad_left[i]
                   /\ ~ret.rows.pad_right[i]

C5_Witness ==
    /\ Called("perform_diff")
    /\ LeftLines = RightLines
    /\ Len(LeftLines) = MaxLines
    /\ \E i \in 1..Len(LeftLines) : LeftLines[i] = <<>>
    /\ \E i, j \in 1..Len(LeftLines) : i # j /\ LeftLines[i] = LeftLines[j]

\* the rows with the two columns swapped and added/removed exchanged
SwapStatus(st) ==
    IF st = "added" THEN "removed" ELSE IF st = "removed" THEN "added" ELSE st

RowView(rows) ==
    [aligned_left |-> rows.aligned_left, aligned_right |-> rows.aligned_right,
     statuses_left |-> rows.statuses_left, statuses_right |-> rows.statuses_right]

Swapped(rows) ==
    [aligned_left |-> rows.aligned_right, aligned_right |-> rows.aligned_left,
     statuses_left |-> [i \in 1..Len(rows.statuses_right) |->
                           SwapStatus(rows.statuses_right[i])],
     statuses_right |-> [i \in 1..Len(rows.statuses_left) |->
                            SwapStatus(rows.statuses_left[i])]]

MirrorTag(tag) ==
    IF tag = "insert" THEN "delete" ELSE IF tag = "delete" THEN "insert" ELSE tag

Mirror(ops) ==
    [k \in 1..Len(ops) |->
        Opcode(MirrorTag(ops[k].tag), ops[k].j1, ops[k].j2, ops[k].i1, ops[k].i2)]

\* C6 as stated: for every pair A, B the rows of perform_diff(B, A), columns
\* swapped and added/removed exchanged, are the rows of perform_diff(A, B).
C6_SymmetryAsStated ==
    Called("perform_diff") =>
        Swapped(AlignedRows(RightLines, LeftLines)) = RowView(ret.rows)

\* C6 amended: the rows are symmetric whenever the matcher's opcodes are:
\* if the emitted opcodes of (B, A) are those of (A, B) with the two ranges
\* swapped and insert/delete exchanged, the rows of perform_diff(B, A),
\* columns swapped and added/removed exchanged, are those of perform_diff(A, B).
C6_SymmetryOfRows ==
    (/\ Called("perform_diff")
     /\ Mirror(LeafOpcodes(RightLines, LeftLines)) = LeafOpcodes(LeftLines, RightLines))
        => Swapped(AlignedRows(RightLines, LeftLines)) = RowView(ret.rows)

C6_Witness ==
    /\ Called("perform_diff")
    /\ Mirror(LeafOpcodes(RightLines, LeftLines)) = LeafOpcodes(LeftLines, RightLines)
    /\ LeftLines # RightLines
    /\ \E i \in 1..Len(ret.rows.statuses_left) :
           ret.rows.statuses_left[i] = "equal" /\ ret.rows.statuses_right[i] = "added"
              /\ ~ret.rows.pad_left[i]
    /\ \E i \in 1..Len(ret.rows.statuses_left) : ret.rows.statuses_left[i] = "replaced"
    /\ \E i \in 1..Len(ret.rows.statuses_left) :
           ret.rows.statuses_left[i] = "equal" /\ ret.rows.statuses_right[i] = "equal"

\* ---------------------------------------- properties of the worker protocol
DiffThreads == {t \in 1..Len(threads) : threads[t].kind = "diff"}

Outcomes(t) == threads[t].results + threads[t].errors

\* C7: every diff WorkerThread that compare_files started delivers exactly
\* one outcome, a result or an error: never two, and never none, so a
\* started worker whose outcome is not delivered yet can still deliver it.
C7_ExactlyOneOutcome ==
    \A t \in DiffThreads :
        /\ Outcomes(t) <= 1
        /\ Outcomes(t) = 0 => ~crashed

\* While the process runs, a diff worker without a delivered outcome is never
\* stuck: a thread can still finish, or the handler of its signal can run.
DiffOutcomeEnabled ==
    ~crashed =>
        \A t \in DiffThreads :
            Outcomes(t) = 0 =>
                \/ \E u \in 1..Len(threads) : threads[u].st = "running"
                \/ Pending(t, "resultReady") /\ CanWaitDiff(Window)
                \/ Pending(t, "errorOccurred") /\ CanWaitAll(Window)

C9_CompareFilesInput ==
    [][CompareFiles =>
         IF getEditorPlainText(editor_left) = <<>>
            \/ getEditorPlainText(editor_right) = <<>>
         THEN /\ last_msg' = "Comparison Error"
              /\ UNCHANGED <<diff_worker, threads, dialogs, editor_left, editor_right>>
         ELSE /\ last_msg' = ""
              /\ Len(threads') = Len(threads) + 1
              /\ SubSeq(threads', 1, Len(threads)) = threads
              /\ diff_worker' = Len(threads')
              /\ threads'[diff_worker'].kind = "diff"
              /\ threads'[diff_worker'].st = "running"
              /\ threads'[diff_worker'].arg1 = getEditorPlainText(editor_left)
              /\ threads'[diff_worker'].arg2 = getEditorPlainText(editor_right)
              /\ UNCHANGED <<editor_left, editor_right>>]_vars

C9_Witness ==
    /\ last_msg = "Comparison Error"
    /\ getEditorPlainText(editor_left) # <<>>
    /\ getEditorPlainText(editor_right) = <<>>
    /\ threads = <<>>

RowStart(ops, k) == SumSeq([m \in 1..(k - 1) |-> Span(ops[m])])

RowIs(rows, n, l_text, r_text, l_stat, r_stat, l_pad, r_pad) ==
    /\ n \in 1..Len(rows.aligned_left)
    /\ n \in 1..Len(rows.aligned_right)
    /\ rows.aligned_left[n] = l_text
    /\ rows.aligned_right[n] = r_text
    /\ rows.statuses_left[n] = l_stat
    /\ rows.statuses_right[n] = r_stat
    /\ rows.pad_left[n] = l_pad
    /\ rows.pad_right[n] = r_pad

\* C11: every opcode that is not a replace yields one row per covered line,
\* in order: equal gives (line, line, equal, equal) with the same text on
\* both sides, delete gives (leftLine, placeholder, removed, equal), insert
\* gives (placeholder, rightLine, equal, added); an empty left with a
\* non-empty right yields only (placeholder, rightLine, equal, added) rows.
C11_NonReplaceRows ==
    Called("perform_diff") =>
        LET ops == LeafOpcodes(LeftLines, RightLines)
            rows == ret.rows
        IN  /\ ret.value.statuses_left = rows.statuses_left
            /\ ret.value.statuses_right = rows.statuses_right
            /\ \A k \in 1..Len(ops) :
                 LET op == ops[k]
                     start == RowStart(ops, k)
                 IN  CASE op.tag = "equal" ->
                            /\ op.i2 - op.i1 = op.j2 - op.j1
                            /\ \A o \in 1..(op.i2 - op.i1) :
                                 /\ LeftLines[op.i1 + o] = RightLines[op.j1 + o]
                                 /\ RowIs(rows, start + o, LeftLines[op.i1 + o],
                                          RightLines[op.j1 + o], "equal", "equal",
                                          FALSE, FALSE)
                       [] op.tag = "delete" ->
                            /\ op.j1 = op.j2
                            /\ \A o \in 1..(op.i2 - op.i1) :
                                 RowIs(rows, start + o, LeftLines[op.i1 + o], <<>>,
                                       "removed", "equal", FALSE, TRUE)
                       [] op.tag = "insert" ->
                            /\ op.i1 = op.i2
                            /\ \A o \in 1..(op.j2 - op.j1) :
                                 RowIs(rows, start + o, <<>>, RightLines[op.j1 + o],
                                       "equal", "added", TRUE, FALSE)
                       [] OTHER -> op.tag = "replace"
            /\ (LeftLines = <<>> /\ RightLines # <<>>) =>
                 /\ Len(rows.aligned_left) = Len(RightLines)
                 /\ \A n \in 1..Len(RightLines) :
                      RowIs(rows, n, <<>>, RightLines[n], "equal", "added", TRUE, FALSE)

C11_Witness ==
    /\ Called("perform_diff")
    /\ \E k \in 1..Len(get_opcodes(LeftLines, RightLines)) :
           get_opcodes(LeftLines, RightLines)[k].tag = "insert"
    /\ \E k \in 1..Len(get_opcodes(LeftLines, RightLines)) :
           get_opcodes(LeftLines, RightLines)[k].tag = "delete"
    /\ \E k \in 1..Len(get_opcodes(LeftLines, RightLines)) :
           /\ get_opcodes(LeftLines, RightLines)[k].tag = "equal"
           /\ get_opcodes(LeftLines, RightLines)[k].i1 > 0

\* ---------------------------------------- properties of the inline differ
\* for each character of the spans' text, whether its span is highlighted
SpanFlags(spans) ==
    Concat([n \in 1..Len(spans) |-> [c \in 1..Len(spans[n].text) |-> spans[n].hl]])

\* the same read from the returned HTML: a character is highlighted when it
\* stands between a span's opening and closing tag
RECURSIVE HtmlFlags(_, _)
HtmlFlags(h, inside) ==
    IF h = <<>> THEN <<>>
    ELSE IF Head(h) = SpanOpen[1] THEN HtmlFlags(Tail(h), TRUE)
    ELSE IF Head(h) = SpanClose[1] THEN HtmlFlags(Tail(h), FALSE)
    ELSE IF Head(h) \in MarkupTokens THEN HtmlFlags(Tail(h), inside)
    ELSE IF \E c \in EscapedChars : IsPrefix(EscapeChar(c), h)
    THEN LET c == CHOOSE x \in EscapedChars : IsPrefix(EscapeChar(x), h)
         IN  <<inside>> \o HtmlFlags(SubSeq(h, Len(EscapeChar(c)) + 1, Len(h)), inside)
    ELSE <<inside>> \o HtmlFlags(Tail(h), inside)

CharOpcodes == get_opcodes(arg_left, arg_right)

InLeftRange(i, tags) ==
    \E k \in 1..Len(CharOpcodes) :
        /\ CharOpcodes[k].tag \in tags
        /\ CharOpcodes[k].i1 < i /\ i <= CharOpcodes[k].i2

InRightRange(j, tags) ==
    \E k \in 1..Len(CharOpcodes) :
        /\ CharOpcodes[k].tag \in tags
        /\ CharOpcodes[k].j1 < j /\ j <= CharOpcodes[k].j2

EqualSpan(text) == [text |-> text, hl |-> FALSE]

\* C12: for non-empty lines a left character is highlighted iff it lies in
\* the left range of a delete or replace character opcode, a right character
\* iff it lies in the right range of an insert or replace character opcode,
\* and every equal opcode yields an unhighlighted span with the same text on
\* both sides; foobar against foobaz gives [fooba, r highlighted] and
\* [fooba, z highlighted].
C12_InlineHighlight ==
    (Called("buildInlineDiff") /\ arg_left # <<>> /\ arg_right # <<>>) =>
        /\ SpanFlags(ret.spans.left) = [i \in 1..Len(arg_left) |->
                                           InLeftRange(i, {"delete", "replace"})]
        /\ SpanFlags(ret.spans.right) = [j \in 1..Len(arg_right) |->
                                            InRightRange(j, {"insert", "replace"})]
        /\ HtmlFlags(ret.value.left, FALSE) = SpanFlags(ret.spans.left)
        /\ HtmlFlags(ret.value.right, FALSE) = SpanFlags(ret.spans.right)
        /\ \A k \in 1..Len(CharOpcodes) :
               CharOpcodes[k].tag = "equal" =>
                   LET l_sub == Slice(arg_left, CharOpcodes[k].i1, CharOpcodes[k].i2)
                       r_sub == Slice(arg_right, CharOpcodes[k].j1, CharOpcodes[k].j2)
                   IN  /\ l_sub = r_sub
                       /\ \E n \in 1..Len(ret.spans.left) :
                              /\ ret.spans.left[n] = EqualSpan(l_sub)
                              /\ Len(SpanTexts(SubSeq(ret.spans.left, 1, n - 1)))
                                     = CharOpcodes[k].i1
                       /\ \E n \in 1..Len(ret.spans.right) :
                              /\ ret.spans.right[n] = EqualSpan(r_sub)
                              /\ Len(SpanTexts(SubSeq(ret.spans.right, 1, n - 1)))
                                     = CharOpcodes[k].j1
        /\ (arg_left = <<"f", "o", "o", "b", "a", "r">>
              /\ arg_right = <<"f", "o", "o", "b", "a", "z">>) =>
               /\ ret.spans.left = <<EqualSpan(<<"f", "o", "o", "b", "a">>),
                                     [text |-> <<"r">>, hl |-> TRUE]>>
               /\ ret.spans.right = <<EqualSpan(<<"f", "o", "o", "b", "a">>),
                                      [text |-> <<"z">>, hl |-> TRUE]>>

C12_Witness ==
    /\ Called("buildInlineDiff")
    /\ arg_left # <<>> /\ arg_right # <<>>
    /\ \E k \in 1..Len(CharOpcodes) : CharOpcodes[k].tag = "equal"
    /\ \E k \in 1..Len(CharOpcodes) : CharOpcodes[k].tag = "replace"
    /\ \E k \in 1..Len(CharOpcodes) : CharOpcodes[k].tag = "delete"
    /\ \E i \in 1..Len(arg_left) : arg_left[i] = "<"

\* ------------------------------------------ properties of replace ranges
\* C13: in the rows of a replace range no row is equal/equal: an offset
\* where both sides have a non-empty line is replaced/replaced, a surplus
\* line of the longer left side is removed/equal, a surplus line of the
\* longer right side is equal/added.
C13_ReplaceRowStatuses ==
    Called("perform_diff") =>
        LET ops == LeafOpcodes(LeftLines, RightLines)
            rows == ret.rows
        IN  \A k \in 1..Len(ops) :
              ops[k].tag = "replace" =>
                \A o \in 1..Span(ops[k]) :
                  LET n == RowStart(ops, k) + o
                      l_has == o <= ops[k].i2 - ops[k].i1
                      r_has == o <= ops[k].j2 - ops[k].j1
                      st == <<rows.statuses_left[n], rows.statuses_right[n]>>
                  IN  /\ st # <<"equal", "equal">>
                      /\ (l_has /\ r_has /\ LeftLines[ops[k].i1 + o] # <<>>
                            /\ RightLines[ops[k].j1 + o] # <<>>)
                           => st = <<"replaced", "replaced">>
                      /\ (l_has /\ ~r_has) => st = <<"removed", "equal">>
                      /\ (r_has /\ ~l_has) => st = <<"equal", "added">>

\* ---------------------------------------- properties of the line matcher
\* lines i .. i+k-1 of a and j .. j+k-1 of b lie in the window and are equal
CommonRun(a, b, w, i, j, k) ==
    /\ k >= 1
    /\ w.alo <= i /\ i + k <= w.ahi
    /\ w.blo <= j /\ j + k <= w.bhi
    /\ \A n \in 0..(k - 1) : At(a, i + n) = At(b, j + n)

\* x is a longest common run of the window, the one that starts first on the
\* left and, among those, first on the right; size 0 when there is none
LeftmostLongest(a, b, w, x) ==
    IF x.size = 0
    THEN \A i \in w.alo..(w.ahi - 1) : \A j \in w.blo..(w.bhi - 1) :
             At(a, i) # At(b, j)
    ELSE /\ CommonRun(a, b, w, x.a, x.b, x.size)
         /\ \A i \in w.alo..(w.ahi - 1) : \A j \in w.blo..(w.bhi - 1) :
                /\ ~CommonRun(a, b, w, i, j, x.size + 1)
                /\ CommonRun(a, b, w, i, j, x.size)
                     => (i > x.a \/ (i = x.a /\ j >= x.b))

\* the windows get_matching_blocks visits, each with the block chosen in it
RECURSIVE AnchorsLeftmostLongest(_, _, _)
AnchorsLeftmostLongest(a, b, w) ==
    LET x == find_longest_match(a, b, w)
    IN  /\ LeftmostLongest(a, b, w, x)
        /\ x.size > 0 =>
             /\ (w.alo < x.a /\ w.blo < x.b) =>
                    AnchorsLeftmostLongest(a, b, [alo |-> w.alo, ahi |-> x.a,
                                                  blo |-> w.blo, bhi |-> x.b])
             /\ (x.a + x.size < w.ahi /\ x.b + x.size < w.bhi) =>
                    AnchorsLeftmostLongest(a, b, [alo |-> x.a + x.size, ahi |-> w.ahi,
                                                  blo |-> x.b + x.size, bhi |-> w.bhi])

WholeWindow(a, b) == [alo |-> 0, ahi |-> Len(a), blo |-> 0, bhi |-> Len(b)]

\* C14: in every window of the line matcher, at the top level and in the
\* refinement of a replace range, the block chosen as the equal anchor is a
\* longest run of lines common to both sides of the window, the one with
\* the smallest start on the left and then the smallest start on the right.
C14_LeftmostLongestAnchor ==
    Called("perform_diff") =>
        /\ AnchorsLeftmostLongest(LeftLines, RightLines,
                                  WholeWindow(LeftLines, RightLines))
        /\ \A k \in 1..Len(get_opcodes(LeftLines, RightLines)) :
               LET op == get_opcodes(LeftLines, RightLines)[k]
                   left_block == Slice(LeftLines, op.i1, op.i2)
                   right_block == Slice(RightLines, op.j1, op.j2)
               IN  op.tag = "replace" =>
                       AnchorsLeftmostLongest(left_block, right_block,
                                              WholeWindow(left_block, right_block))

\* ------------------------------------------ properties of the rendering
\* the branch of the rendering pass taken for row n
BranchOfRow(n) ==
    RowBranch(ret.rows.aligned_left[n], ret.rows.aligned_right[n],
              ret.rows.statuses_left[n], ret.rows.statuses_right[n])

\* C15: the rendering pass calls buildInlineDiff for a row iff the row is
\* replaced/replaced; such a row has non-empty text on both sides and its
\* two paragraphs are what buildInlineDiff returns, so the branch painting
\* a replaced row without spans is never taken; when all rows are
\* equal/equal buildInlineDiff is not called.
C15_InlineOnlyForReplaced ==
    Called("perform_diff") =>
        /\ \A n \in 1..Len(ret.value.final_left_html) :
             LET replaced == /\ ret.value.statuses_left[n] = "replaced"
                             /\ ret.value.statuses_right[n] = "replaced"
             IN  /\ BranchOfRow(n) = "buildInlineDiff" <=> replaced
                 /\ BranchOfRow(n) # "replaced"
                 /\ replaced =>
                      /\ ret.rows.aligned_left[n] # <<>>
                      /\ ret.rows.aligned_right[n] # <<>>
                      /\ ret.value.final_left_html[n]
                           = buildInlineDiff(ret.rows.aligned_left[n],
                                             ret.rows.aligned_right[n]).left
                      /\ ret.value.final_right_html[n]
                           = buildInlineDiff(ret.rows.aligned_left[n],
                                             ret.rows.aligned_right[n]).right
                 /\ ~replaced =>
                      /\ SpanOpen[1] \notin Range(ret.value.final_left_html[n])
                      /\ SpanOpen[1] \notin Range(ret.value.final_right_html[n])
        /\ (\A n \in 1..Len(ret.value.statuses_left) :
                ret.value.statuses_left[n] = "equal"
                  /\ ret.value.statuses_right[n] = "equal")
             => \A n \in 1..Len(ret.value.final_left_html) : BranchOfRow(n) = "equal"

C15_Witness ==
    /\ Called("perform_diff")
    /\ \E n \in 1..Len(ret.value.statuses_left) : BranchOfRow(n) = "buildInlineDiff"
    /\ \E n \in 1..Len(ret.value.statuses_left) : BranchOfRow(n) = "removed"
    /\ \E n \in 1..Len(ret.rows.aligned_left) :
           ~ret.rows.pad_left[n] /\ ret.rows.aligned_left[n] = <<>>

\* ------------------------------------------ properties of the refinement
\* C16: the refinement of a top-level replace range changes nothing: its two
\* sub-blocks share no line, the nested matcher returns one replace opcode
\* spanning both sub-blocks, and the rows are those of the positional
\* replace rule applied to the top-level opcode.
C16_RefinementChangesNothing ==
    Called("perform_diff") =>
        \A k \in 1..Len(get_opcodes(LeftLines, RightLines)) :
            LET op == get_opcodes(LeftLines, RightLines)[k]
                left_block == Slice(LeftLines, op.i1, op.i2)
                right_block == Slice(RightLines, op.j1, op.j2)
                sub == get_opcodes(left_block, right_block)
            IN  op.tag = "replace" =>
                  /\ Range(left_block) \cap Range(right_block) = {}
                  /\ sub = <<Opcode("replace", 0, Len(left_block), 0, Len(right_block))>>
                  /\ SubRows(left_block, right_block, sub)
                       = ReplaceRows(left_block, right_block,
                                     0, Len(left_block), 0, Len(right_block))

\* -------------------------------------- properties of the hex-dump workers
\* C17: a running hex-dump worker is never replaced: a WorkerThread started
\* by process_binary_view_for_both stays in the slot of its side,
\* binary_worker_left or binary_worker_right, until it has finished, so no
\* second worker is started for a side whose worker is still running.
C17_RunningWorkerKeepsSlot ==
    \A t \in 1..Len(threads) :
        (threads[t].kind = "binary" /\ threads[t].st = "running") =>
            \/ threads[t].side = "left" /\ binary_worker_left = t
            \/ threads[t].side = "right" /\ binary_worker_right = t

====
